---- MODULE Spec2Model ----
(***************************************************************************)
(* Model of the write-only crate: WriteOnlyRef, VolatileWriteOnlyRef and   *)
(* WriteOnlySlice over one piece of storage owned by the caller.           *)
(*                                                                         *)
(* A value is a cell [id, val].  A value of a type with a destructor has a *)
(* positive id, unique to it (the droptest guards of the tests); a value   *)
(* of a Copy type has id 0 and no destructor.  Values owned by the caller  *)
(* of a bulk operation (the elements of src) have negative ids.            *)
(* world.events lists what the last call did, in order: <<kind, k, cell>>. *)
(***************************************************************************)
EXTENDS Integers, Sequences, FiniteSets

VARIABLES
    profile,    \* the build: "dev" (checks on) or "release" (checks off)
    elem,       \* the element type T: "guard" (Clone + Drop) or "int" (Copy)
    handle,     \* the handle: [type, data, len]
    status,     \* "none", "live", "gone", "panicked", "ub", "torn"
    world,      \* the storage and the destructor registry
    last,       \* the last call: [op, index, n, panicAt, outcome, ret]
    shadow,     \* a second storage driven by the same calls
    written     \* the payload the calls so far last gave each element

vars == <<profile, elem, handle, status, world, last, shadow, written>>

\* ---------------------------------------------------------------- bounds
MaxLen == 3     \* longest storage
MaxSrc == 2     \* longest source slice of a bulk call
MaxNew == 2     \* values with a destructor created after the storage
UsizeBits == 4  \* width of usize

UsizeRange == 2 ^ UsizeBits
IsizeMax == 2 ^ (UsizeBits - 1) - 1
MaxId == MaxLen + MaxNew
Ids == 1 .. MaxId
Vals == {MaxLen, MaxLen + 1}        \* payloads of the values passed in
ShadowVals == {MaxLen + 2, MaxLen + 3}       \* payloads the shadow storage starts with

\* ---------------------------------------------------------- the two builds
\* debug_assert! is compiled in under cfg(debug_assertions).
debug_assertions == profile = "dev"
\* `+` and `-` on usize panic on overflow when overflow checks are on, and
\* wrap modulo 2^UsizeBits when they are off.
overflow_checks == profile = "dev"

AddOverflows(a, b) == a + b > UsizeRange - 1
WrappingAdd(a, b) == (a + b) % UsizeRange
SubOverflows(a, b) == a < b
WrappingSub(a, b) == (a - b + UsizeRange) % UsizeRange

\* ------------------------------------------------------------------ values
Cell(id, val) == [id |-> id, val |-> val]
HasDrop(c) == c.id > 0

Panicked(o) == o \in {"panic_bounds", "panic_overflow", "panic_clone", "panic_debug_assert"}

\* The element type's destructor runs on c.
DropValue(e, k, c) ==
    IF HasDrop(c)
    THEN [e EXCEPT !.drops[c.id] = @ + 1,
                   !.events = Append(@, <<"drop", k, c>>)]
    ELSE e

\* A panic unwinds the frame of the call: a `value: T` argument the call still
\* owns is dropped.
DropArg(e, c) ==
    IF HasDrop(c)
    THEN [e EXCEPT !.drops[c.id] = @ + 1,
                   !.events = Append(@, <<"drop_arg", 0, c>>)]
    ELSE e

\* ------------------------------------------------------- raw pointer stores
\* A store through data.add(k).  k is 0-based; the storage is e.mem.  A store
\* outside the storage is undefined behaviour: the call is marked (e.ub) and
\* the stray store recorded; what it hits is chosen when the call returns.
Store(e, k, c) ==
    IF k < Len(e.mem)
    THEN [e EXCEPT !.mem[k + 1] = c,
                   !.events = Append(@, <<"store", k, c>>)]
    ELSE [e EXCEPT !.ub = TRUE,
                   !.events = Append(@, <<"stray", k, c>>)]

\* drop_in_place(data.add(k)): the destructor of whatever is there.
DropInPlace(e, k) ==
    IF k < Len(e.mem)
    THEN DropValue(e, k, e.mem[k + 1])
    ELSE [e EXCEPT !.ub = TRUE]

\* An assignment that stores first and then drops what is in the slot.
PtrAssign_StoreFirst(e, k, c) == DropInPlace(Store(e, k, c), k)

\* `*ptr = value`: the old value is dropped, then the new one is stored.
PtrAssign(e, k, c) == Store(DropInPlace(e, k), k, c)

\* A write that drops the old value, as an assignment does.
PtrWrite_Drops(e, k, c) == Store(DropInPlace(e, k), k, c)

\* `ptr.write(value)` and `ptr.write_volatile(value)`: the store alone.
PtrWrite(e, k, c) == Store(e, k, c)

\* What a call returns: (), a usize or a bool.
Unit == [t |-> "unit", v |-> 0]
UsizeRet(n) == [t |-> "usize", v |-> n]
BoolRet(b) == [t |-> "bool", v |-> IF b THEN 1 ELSE 0]

\* The result of a call: the storage after it, how it ended, what it returned.
Result(e, outcome, ret) == [e |-> e, outcome |-> outcome, ret |-> ret]
\* A call that made a stray store has undefined behaviour, however it ends.
Ended(e, outcome) == Result(e, IF e.ub THEN "ub" ELSE outcome, Unit)
Finish(e) == Ended(e, "ok")

\* ------------------------------------------------------------ WriteOnlyRef
put(e, value) == Finish(PtrAssign(e, 0, value))

\* A write that keeps the value in the handle and stores nothing.
write_Cached(e, value) == Finish(e)

write(e, value) == Finish(PtrWrite(e, 0, value))

\* ---------------------------------------------------- VolatileWriteOnlyRef
volatile_write(e, value) == Finish(PtrWrite(e, 0, value))

\* ---------------------------------------------------------- WriteOnlySlice
\* A len() that reads the first element.
len_ReadsElement(h, e) ==
    Result(e, "ok", UsizeRet(IF Len(e.mem) > 0 THEN e.mem[1].val ELSE 0))

len(h, e) == Result(e, "ok", UsizeRet(h.len))

is_empty(h, e) == Result(e, "ok", BoolRet(h.len = 0))

\* A put_at_unchecked that does not drop the old value.
put_at_unchecked_NoDrop(e, index, value) == PtrWrite(e, index, value)

put_at_unchecked(e, index, value) == PtrAssign(e, index, value)

\* A put_at whose bounds check is off by one.
put_at_OffByOne(h, e, index, value) ==
    IF ~(index <= h.len)
    THEN Result(DropArg(e, value), "panic_bounds", Unit)
    ELSE Finish(put_at_unchecked(e, index, value))

put_at(h, e, index, value) ==
    IF ~(index < h.len)
    THEN Result(DropArg(e, value), "panic_bounds", Unit)
    ELSE Finish(put_at_unchecked(e, index, value))

write_at_unchecked(e, index, value) == PtrWrite(e, index, value)

write_at(h, e, index, value) ==
    IF ~(index < h.len)
    THEN Result(DropArg(e, value), "panic_bounds", Unit)
    ELSE Finish(write_at_unchecked(e, index, value))

\* item.clone(): a new value with the same payload; a Copy value is copied.
Clone(e, i, item) ==
    IF item.id = 0
    THEN [e |-> e, c |-> item]
    ELSE [e |-> [e EXCEPT !.nextId = @ + 1,
                          !.events = Append(@, <<"clone", i, Cell(e.nextId + 1, item.val)>>)],
          c |-> Cell(e.nextId + 1, item.val)]

\* for (index, item) in src.iter().enumerate() { ... item.clone() ... }
\* from index i on.  panicAt is the index whose clone() panics (Len(s): none).
RECURSIVE CloneLoop(_, _, _, _, _, _, _)
CloneLoop(e, s, offset, i, dropping, panicAt, oc) ==
    IF i >= Len(s) THEN Finish(e)
    ELSE IF oc /\ AddOverflows(offset, i) THEN Ended(e, "panic_overflow")
    ELSE IF i = panicAt THEN Ended(e, "panic_clone")
    ELSE LET cl == Clone(e, i, s[i + 1])
             k  == WrappingAdd(offset, i)
             e2 == IF dropping THEN PtrAssign(cl.e, k, cl.c)
                               ELSE PtrWrite(cl.e, k, cl.c)
         IN  CloneLoop(e2, s, offset, i + 1, dropping, panicAt, oc)

\* A put_cloning_from_slice_at that checks its bounds after the loop.
put_cloning_from_slice_at_LateCheck(h, e, s, offset, panicAt, oc) ==
    LET r == CloneLoop(e, s, offset, 0, TRUE, panicAt, oc)
    IN  IF ~(WrappingAdd(offset, Len(s)) <= h.len)
        THEN Ended(r.e, "panic_bounds")
        ELSE r

put_cloning_from_slice_at(h, e, s, offset, panicAt, oc) ==
    IF oc /\ AddOverflows(offset, Len(s))
    THEN Result(e, "panic_overflow", Unit)
    ELSE IF ~(WrappingAdd(offset, Len(s)) <= h.len)
    THEN Result(e, "panic_bounds", Unit)
    ELSE CloneLoop(e, s, offset, 0, TRUE, panicAt, oc)

\* A write_cloning_from_slice_at that writes from the start of the slice.
write_cloning_from_slice_at_NoOffset(h, e, s, offset, panicAt, oc) ==
    IF ~(WrappingAdd(offset, Len(s)) <= h.len)
    THEN Result(e, "panic_bounds", Unit)
    ELSE CloneLoop(e, s, 0, 0, FALSE, panicAt, oc)

write_cloning_from_slice_at(h, e, s, offset, panicAt, oc) ==
    IF oc /\ AddOverflows(offset, Len(s))
    THEN Result(e, "panic_overflow", Unit)
    ELSE IF ~(WrappingAdd(offset, Len(s)) <= h.len)
    THEN Result(e, "panic_bounds", Unit)
    ELSE CloneLoop(e, s, offset, 0, FALSE, panicAt, oc)

\* copy_from_nonoverlapping(src.as_ptr(), n): the bits of s[i+1..] are stored
\* at data.add(offset) onwards; addresses wrap with the address space.
RECURSIVE CopyNonoverlapping(_, _, _, _)
CopyNonoverlapping(e, s, offset, i) ==
    IF i >= Len(s) THEN e
    ELSE CopyNonoverlapping(Store(e, WrappingAdd(offset, i), s[i + 1]),
                            s, offset, i + 1)

write_copying_from_slice_at(h, e, s, offset, oc) ==
    IF oc /\ SubOverflows(h.len, offset)
    THEN Result(e, "panic_overflow", Unit)
    ELSE IF ~(Len(s) <= WrappingSub(h.len, offset))
    THEN Result(e, "panic_bounds", Unit)
    ELSE Finish(CopyNonoverlapping(e, s, offset, 0))

\* ------------------------------------------------------------ constructors
\* data.align_offset(align) == 0
Aligned(data, align) == data % align = 0

\* The alignment the first debug_assert! of from_raw_parts compares with:
\* mem::align_of::<u16>().
AlignOfU16 == 2

SaturatingMul(a, b) == IF a * b > UsizeRange - 1 THEN UsizeRange - 1 ELSE a * b

from_raw_parts(data, n, size, da) ==
    IF da /\ ~(data # 0 /\ Aligned(data, AlignOfU16))
    THEN [outcome |-> "panic_debug_assert", data |-> data, len |-> n]
    ELSE IF da /\ ~(SaturatingMul(size, n) <= IsizeMax)
    THEN [outcome |-> "panic_debug_assert", data |-> data, len |-> n]
    ELSE [outcome |-> "ok", data |-> data, len |-> n]

\* impl From<&mut [T]> for WriteOnlySlice
slice_from(data, n, size, da) == from_raw_parts(data, n, size, da)

\* WriteOnlyRef::from_ptr and VolatileWriteOnlyRef::from_ptr
from_ptr(data) == [outcome |-> "ok", data |-> data, len |-> 1]

\* impl From<&mut T> for WriteOnlyRef and for VolatileWriteOnlyRef
ref_from(data) == from_ptr(data)

\* ------------------------------------------------------------------ states
Types == {"WriteOnlyRef", "VolatileWriteOnlyRef", "WriteOnlySlice"}
Aligns == {1, 2, 4}
Addrs == {4, 5}

\* What Rust guarantees of an exclusive borrow of n elements of size and
\* alignment align at address data.
ValidBorrow(data, align, n) ==
    /\ data # 0
    /\ Aligned(data, align)
    /\ align * n <= IsizeMax
    /\ data + align * n <= UsizeRange

\* The storage as the tests build it: element i holds payload i, and, for a
\* type with a destructor, is guard number i + 1 of the registry.
InitMem(k, n) == [i \in 1 .. n |-> Cell(IF k = "guard" THEN i ELSE 0, i - 1)]

InitWorld(k, n) ==
    [mem |-> InitMem(k, n), drops |-> [i \in Ids |-> 0], nextId |-> n,
     events |-> <<>>, ub |-> FALSE]

\* A call as `last` records it: the index or offset argument, the length of the
\* source slice, the source index whose clone() panics, and how the call ended.
Called(op, index, n, panicAt, outcome, ret) ==
    [op |-> op, index |-> index, n |-> n, panicAt |-> panicAt,
     outcome |-> outcome, ret |-> ret]

NoCall == Called("none", 0, 0, 0, "ok", Unit)

InitCommon ==
    /\ profile \in {"dev", "release"}
    /\ elem \in {"guard", "int"}
    /\ \E t \in Types : handle = [type |-> t, data |-> 0, len |-> 0]
    /\ status = "none"
    /\ \E n \in 0 .. MaxLen :
          /\ handle.type # "WriteOnlySlice" => n = 1
          /\ world = InitWorld(elem, n)
          /\ written = [i \in 1 .. n |-> InitMem(elem, n)[i].val]
    /\ last = NoCall

Init ==
    /\ InitCommon
    /\ shadow = [e |-> world, outcome |-> "ok", ret |-> Unit]

\* The shadow storage starts with other payloads in the same places.
InitNoRead ==
    /\ InitCommon
    /\ \E sv \in ShadowVals :
          shadow = [e |-> [world EXCEPT !.mem = [i \in 1 .. Len(world.mem) |->
                                                  Cell(world.mem[i].id, sv)]],
                    outcome |-> "ok", ret |-> Unit]

Begin(e) == [e EXCEPT !.events = <<>>]

\* The payloads the caller chooses from.  A guard is told apart by its id, so
\* one first payload is enough for guards.
Payloads == IF elem = "guard" THEN {MaxLen} ELSE Vals

\* The caller creates the value it passes in: registry.new_guard_for(v).
NewValue(e, v) == Cell(IF elem = "guard" THEN e.nextId + 1 ELSE 0, v)
Created(e) == IF elem = "guard" THEN [Begin(e) EXCEPT !.nextId = @ + 1] ELSE Begin(e)
CanCreate(n) == elem = "guard" => world.nextId + n <= MaxId

\* The index and offset arguments of the calls: the values around the storage's
\* length, and the largest values of usize, where `offset + src.len()` wraps.
\* Every usize between the two ranges takes the same branches as MaxLen + 1.
Indices == (0 .. MaxLen + 1) \cup {UsizeRange - 2, UsizeRange - 1}

\* The caller's source slices: one of each length, neighbours with different
\* payloads.
SourceOfLen(n) == [i \in 1 .. n |-> IF i % 2 = 1 THEN MaxLen ELSE MaxLen + 1]
Sources == {SourceOfLen(n) : n \in 0 .. MaxSrc}
SrcSlice(f) == [i \in 1 .. Len(f) |-> Cell(IF elem = "guard" THEN 0 - i ELSE 0, f[i])]

\* What a stray store of a call hits: foreign memory (a = 0) or element a of
\* the storage.
RECURSIVE LastStray(_, _)
LastStray(ev, i) ==
    IF i = 0 THEN Cell(0, 0)
    ELSE IF ev[i][1] = "stray" THEN ev[i][3] ELSE LastStray(ev, i - 1)
Hit(e, a) ==
    IF e.ub /\ a # 0 THEN [e EXCEPT !.mem[a] = LastStray(e.events, Len(e.events))] ELSE e
Hits(r) == IF r.outcome = "ub" THEN 0 .. Len(r.e.mem) ELSE {0}

\* The contents the caller expects after a call that returned: the elements
\* index .. index + Len(vs) - 1 hold the payloads vs the call was given, in
\* order, and every other element what it held.
LastWritten(w, index, vs) ==
    [j \in DOMAIN w |->
        IF index < j /\ j <= index + Len(vs) THEN vs[j - index] ELSE w[j]]

Returned(op, index, n, panicAt, r, r2, vs) ==
    /\ \E a \in Hits(r) :
          /\ world' = Hit(r.e, a)
          /\ shadow' = [e |-> Hit(r2.e, a), outcome |-> r2.outcome, ret |-> r2.ret]
    /\ last' = Called(op, index, n, panicAt, r.outcome, r.ret)
    /\ written' = IF r.outcome = "ok" THEN LastWritten(written, index, vs) ELSE written
    /\ status' = IF Panicked(r.outcome) THEN "panicked"
                 ELSE IF r.outcome = "ub" THEN "ub" ELSE "live"
    /\ UNCHANGED <<profile, elem, handle>>

Live(t) == status = "live" /\ handle.type = t

\* ----------------------------------------------------------------- actions
Constructed(c, r) ==
    /\ handle' = [type |-> handle.type, data |-> r.data, len |-> r.len]
    /\ status' = IF Panicked(r.outcome) THEN "panicked" ELSE "live"
    /\ last' = Called(c, 0, 0, 0, r.outcome, Unit)
    /\ shadow' = [shadow EXCEPT !.outcome = r.outcome, !.ret = Unit]
    /\ UNCHANGED <<profile, elem, world, written>>

\* WriteOnlySlice::from(&mut guards[..]), WriteOnlyRef::from(&mut guard), ...
FromCall(data, align) ==
    /\ status = "none"
    /\ ValidBorrow(data, align, Len(world.mem))
    /\ Constructed("from",
          IF handle.type = "WriteOnlySlice"
          THEN slice_from(data, Len(world.mem), align, debug_assertions)
          ELSE ref_from(data))

From == \E data \in Addrs, align \in Aligns : FromCall(data, align)

\* unsafe { WriteOnlySlice::from_raw_parts(ptr, n) }, unsafe { from_ptr(ptr) },
\* called as the safety contract asks: on the storage itself.
FromRawCall(data, align) ==
    /\ status = "none"
    /\ ValidBorrow(data, align, Len(world.mem))
    /\ Constructed("raw",
          IF handle.type = "WriteOnlySlice"
          THEN from_raw_parts(data, Len(world.mem), align, debug_assertions)
          ELSE from_ptr(data))

FromRaw == \E data \in Addrs, align \in Aligns : FromRawCall(data, align)

LenCall ==
    /\ Live("WriteOnlySlice")
    /\ Returned("len", 0, 0, 0, len(handle, Begin(world)), len(handle, Begin(shadow.e)),
                <<>>)

IsEmptyCall ==
    /\ Live("WriteOnlySlice")
    /\ Returned("is_empty", 0, 0, 0, is_empty(handle, Begin(world)),
                is_empty(handle, Begin(shadow.e)), <<>>)

PutCall(v) ==
    /\ Live("WriteOnlyRef")
    /\ CanCreate(1)
    /\ Returned("put", 0, 0, 0, put(Created(world), NewValue(world, v)),
                put(Created(shadow.e), NewValue(shadow.e, v)), <<v>>)

Put == \E v \in Payloads : PutCall(v)

WriteCall(v) ==
    /\ Live("WriteOnlyRef")
    /\ CanCreate(1)
    /\ Returned("write", 0, 0, 0, write(Created(world), NewValue(world, v)),
                write(Created(shadow.e), NewValue(shadow.e, v)), <<v>>)

Write == \E v \in Payloads : WriteCall(v)

VolatileWriteCall(v) ==
    /\ Live("VolatileWriteOnlyRef")
    /\ CanCreate(1)
    /\ Returned("volatile_write", 0, 0, 0,
                volatile_write(Created(world), NewValue(world, v)),
                volatile_write(Created(shadow.e), NewValue(shadow.e, v)), <<v>>)

VolatileWrite == \E v \in Payloads : VolatileWriteCall(v)

PutAtCall(index, v) ==
    /\ Live("WriteOnlySlice")
    /\ CanCreate(1)
    /\ Returned("put_at", index, 0, 0,
                put_at(handle, Created(world), index, NewValue(world, v)),
                put_at(handle, Created(shadow.e), index, NewValue(shadow.e, v)),
                <<v>>)

PutAt == \E index \in Indices, v \in Payloads : PutAtCall(index, v)

WriteAtCall(index, v) ==
    /\ Live("WriteOnlySlice")
    /\ CanCreate(1)
    /\ Returned("write_at", index, 0, 0,
                write_at(handle, Created(world), index, NewValue(world, v)),
                write_at(handle, Created(shadow.e), index, NewValue(shadow.e, v)),
                <<v>>)

WriteAt == \E index \in Indices, v \in Payloads : WriteAtCall(index, v)

\* T: Clone
PutCloningCall(f, offset, panicAt) ==
    /\ Live("WriteOnlySlice")
    /\ CanCreate(Len(f))
    /\ panicAt \in 0 .. Len(f)
    /\ Returned("put_cloning_from_slice_at", offset, Len(f), panicAt,
                put_cloning_from_slice_at(handle, Begin(world), SrcSlice(f), offset,
                                          panicAt, overflow_checks),
                put_cloning_from_slice_at(handle, Begin(shadow.e), SrcSlice(f), offset,
                                          panicAt, overflow_checks), f)

PutCloningFromSliceAt ==
    \E f \in Sources, offset \in Indices, panicAt \in 0 .. MaxSrc :
        PutCloningCall(f, offset, panicAt)

WriteCloningCall(f, offset, panicAt) ==
    /\ Live("WriteOnlySlice")
    /\ CanCreate(Len(f))
    /\ panicAt \in 0 .. Len(f)
    /\ Returned("write_cloning_from_slice_at", offset, Len(f), panicAt,
                write_cloning_from_slice_at(handle, Begin(world), SrcSlice(f), offset,
                                            panicAt, overflow_checks),
                write_cloning_from_slice_at(handle, Begin(shadow.e), SrcSlice(f), offset,
                                            panicAt, overflow_checks), f)

WriteCloningFromSliceAt ==
    \E f \in Sources, offset \in Indices, panicAt \in 0 .. MaxSrc :
        WriteCloningCall(f, offset, panicAt)

\* T: Copy
WriteCopyingCall(f, offset) ==
    /\ Live("WriteOnlySlice")
    /\ elem = "int"
    /\ Returned("write_copying_from_slice_at", offset, Len(f), Len(f),
                write_copying_from_slice_at(handle, Begin(world), SrcSlice(f), offset,
                                            overflow_checks),
                write_copying_from_slice_at(handle, Begin(shadow.e), SrcSlice(f), offset,
                                            overflow_checks), f)

WriteCopyingFromSliceAt ==
    \E f \in Sources, offset \in Indices : WriteCopyingCall(f, offset)

\* std::mem::drop(guards): the owner of the storage drops every element, once
\* the borrow the handle held has ended (or while a panic unwinds).
RECURSIVE DropAll(_, _)
DropAll(e, i) ==
    IF i > Len(e.mem) THEN e ELSE DropAll(DropValue(e, i - 1, e.mem[i]), i + 1)

\* A handle whose drop destroys the elements it points to.
drop_handle_DropsElements(e) == DropAll(e, 1)

\* std::mem::drop(reference): the handle types have no Drop impl and own
\* nothing but a raw pointer, a usize and a PhantomData.
drop_handle(e) == e

DropHandle ==
    /\ status = "live"
    /\ status' = "gone"
    /\ world' = drop_handle(Begin(world))
    /\ shadow' = [e |-> drop_handle(Begin(shadow.e)), outcome |-> "ok", ret |-> Unit]
    /\ last' = Called("drop_handle", 0, 0, 0, "ok", Unit)
    /\ UNCHANGED <<profile, elem, handle, written>>

Teardown ==
    /\ status \in {"gone", "panicked"}
    /\ status' = "torn"
    /\ world' = DropAll(Begin(world), 1)
    /\ shadow' = [e |-> DropAll(Begin(shadow.e), 1), outcome |-> "ok", ret |-> Unit]
    /\ last' = Called("teardown", 0, 0, 0, "ok", Unit)
    /\ UNCHANGED <<profile, elem, handle, written>>

Next ==
    \/ From
    \/ FromRaw
    \/ LenCall
    \/ IsEmptyCall
    \/ Put
    \/ Write
    \/ VolatileWrite
    \/ PutAt
    \/ WriteAt
    \/ PutCloningFromSliceAt
    \/ WriteCloningFromSliceAt
    \/ WriteCopyingFromSliceAt
    \/ DropHandle
    \/ Teardown

Spec == Init /\ [][Next]_vars

SpecNoRead == InitNoRead /\ [][Next]_vars

\* ------------------------------------------------------------------ claims
InMem(e, id) == \E i \in DOMAIN e.mem : e.mem[i].id = id
Ok(l) == l.outcome = "ok"
NewValues(e) == {NewValue(e, v) : v \in Payloads}
Kinds(ev) == {ev[i][1] : i \in DOMAIN ev}

\* C1 (no-read): a second storage of the same length with other contents,
\* driven by the same calls, ends every call the same way and returns the same
\* values; only len() and is_empty() return anything, and what they return is
\* the handle's length and whether it is 0.
C1_NoRead ==
    /\ shadow.outcome = last.outcome
    /\ shadow.ret = last.ret
    /\ last.ret # Unit => last.op \in {"len", "is_empty"}
    /\ last.op = "len" => last.ret = UsizeRet(handle.len)
    /\ last.op = "is_empty" => last.ret = BoolRet(handle.len = 0)

\* len() is called after a write, on storages whose other contents differ.
C1_Witness ==
    /\ last.op = "len"
    /\ \E i \in DOMAIN world.mem : world.mem[i].val # shadow.e.mem[i].val
    /\ \E i \in DOMAIN world.mem : world.mem[i].val \in Vals

\* The owner's teardown runs the destructor of each value in the storage once
\* and of no other value.
TornOnce ==
    \A id \in Ids :
        IF InMem(world, id)
        THEN world.drops[id] = 0 /\ world'.drops[id] = 1
        ELSE world'.drops[id] = world.drops[id]

\* Slot k was replaced by a put: the new value is there, the old value's
\* destructor ran once, before the store, and no other destructor ran.
Replaced(k) ==
    LET old == world.mem[k + 1]
        new == world'.mem[k + 1]
    IN  /\ new \in NewValues(world)
        /\ HasDrop(old) => world.drops[old.id] = 0 /\ world'.drops[old.id] = 1
        /\ \A id \in Ids : id # old.id => world'.drops[id] = world.drops[id]
        /\ world'.events =
              (IF HasDrop(old) THEN <<<<"drop", k, old>>>> ELSE <<>>)
                  \o <<<<"store", k, new>>>>

\* C2 (drop exactly once): a put, or a put_at with a valid index, leaves the
\* new value in the target, has run the old value's destructor once and not the
\* new value's; the later teardown runs the new value's destructor once and
\* does not run the old value's again.
C2_DropExactlyOnce ==
    [][/\ (last'.op = "put" /\ Ok(last')) => Replaced(0)
       /\ (last'.op = "put_at" /\ Ok(last')) => Replaced(last'.index)
       /\ last'.op = "teardown" => TornOnce]_vars

\* The storage of a WriteOnlyRef is torn down after a put replaced its value.
C2_Witness ==
    /\ status = "torn"
    /\ handle.type = "WriteOnlyRef"
    /\ elem = "guard"
    /\ ~InMem(world, 1) /\ world.drops[1] = 1
    /\ \A i \in DOMAIN world.mem : world.drops[world.mem[i].id] = 1

\* Slot k was overwritten by a write: the new value is there and no
\* destructor ran.
Written(k) ==
    /\ world'.mem[k + 1] \in NewValues(world)
    /\ world'.drops = world.drops
    /\ world'.events = <<<<"store", k, world'.mem[k + 1]>>>>

\* Slots index .. index + n - 1 were overwritten by a bulk write: the copies of
\* the source are there and no destructor ran.
WrittenFromSlice ==
    /\ \A i \in 1 .. last'.n :
          /\ world'.mem[last'.index + i].val = SourceOfLen(last'.n)[i]
          /\ elem = "guard" => world'.mem[last'.index + i].id > world.nextId
    /\ world'.drops = world.drops
    /\ Kinds(world'.events) \subseteq {"clone", "store"}

\* A value that left the storage without its destructor run.
Leaked(e, id) == id <= e.nextId /\ ~InMem(e, id) /\ e.drops[id] = 0

\* C3 (no drop): a write, a volatile write, a write_at or a bulk write leaves
\* the new value in the target and runs no destructor; the later teardown runs
\* the destructors of the values then in the storage, and the destructor of an
\* overwritten value is never run.
C3_NoDrop ==
    [][/\ (last'.op \in {"write", "volatile_write"} /\ Ok(last')) => Written(0)
       /\ (last'.op = "write_at" /\ Ok(last')) => Written(last'.index)
       /\ (last'.op \in {"write_cloning_from_slice_at", "write_copying_from_slice_at"}
              /\ Ok(last')) => WrittenFromSlice
       /\ last'.op = "teardown" => TornOnce
       /\ \A id \in Ids : Leaked(world, id) => world'.drops[id] = 0]_vars

\* The storage is torn down after a write_at overwrote its first value, whose
\* destructor has not run.
C3_Witness ==
    /\ status = "torn"
    /\ handle.type = "WriteOnlySlice"
    /\ elem = "guard"
    /\ Leaked(world, 1)
    /\ \A i \in DOMAIN world.mem : world.drops[world.mem[i].id] = 1

\* C4 (indexed bounds): put_at and write_at panic for every index >= len,
\* before any element is modified or destroyed, and succeed for every
\* index < len.
C4_IndexedBounds ==
    [][last'.op \in {"put_at", "write_at"} =>
         IF last'.index >= handle.len
         THEN /\ Panicked(last'.outcome)
              /\ world'.mem = world.mem
              /\ \A i \in DOMAIN world.mem :
                    HasDrop(world.mem[i]) =>
                        world'.drops[world.mem[i].id] = world.drops[world.mem[i].id]
              /\ Kinds(world'.events) \subseteq {"drop_arg"}
         ELSE Ok(last')]_vars

\* put_at panicked on an empty slice.
C4_Witness ==
    /\ last.op = "put_at"
    /\ handle.len = 0
    /\ Panicked(last.outcome)

BulkOps ==
    {"put_cloning_from_slice_at", "write_cloning_from_slice_at",
     "write_copying_from_slice_at"}

\* C5 (bulk bounds): a bulk operation panics whenever offset + src.len() > len,
\* leaving every element unchanged, and does not panic when
\* offset + src.len() <= len.
C5_BulkBounds ==
    [][last'.op \in BulkOps =>
         IF last'.index + last'.n > handle.len
         THEN Panicked(last'.outcome) /\ world'.mem = world.mem
         ELSE last'.panicAt = last'.n => Ok(last')]_vars

\* The source element written to slot j (1-based) by the last call.
Copied(j) == SrcSlice(SourceOfLen(last'.n))[j - last'.index]

\* C6 (bulk result): after a successful bulk operation, target element
\* offset + i holds a copy of src[i] (the copying variant: the same bits; the
\* cloning variants: a new value with the same payload), every other element
\* is unchanged, and every store of the call went to the target range.
C6_BulkResult ==
    [][(last'.op \in BulkOps /\ Ok(last')) =>
         /\ Len(world'.mem) = Len(world.mem)
         /\ \A j \in DOMAIN world.mem :
               IF last'.index < j /\ j <= last'.index + last'.n
               THEN /\ world'.mem[j].val = Copied(j).val
                    /\ last'.op = "write_copying_from_slice_at"
                          => world'.mem[j] = Copied(j)
                    /\ elem = "guard" => world'.mem[j].id > world.nextId
               ELSE world'.mem[j] = world.mem[j]
         /\ \A x \in DOMAIN world'.events :
               world'.events[x][1] = "store" =>
                   /\ last'.index <= world'.events[x][2]
                   /\ world'.events[x][2] < last'.index + last'.n]_vars

\* write_copying_from_slice_at wrote two elements up to the end of a storage
\* of three.
C6_Witness ==
    /\ last.op = "write_copying_from_slice_at"
    /\ Ok(last)
    /\ last.n = 2 /\ last.index = 1
    /\ Len(world.mem) = 3
    /\ world.mem[1].val = 0 /\ world.mem[2].val = MaxLen /\ world.mem[3].val = MaxLen + 1

\* C7 (destruction order of put_cloning_from_slice_at): a successful call on
\* values with a destructor clones src[i], destroys the old occupant of slot
\* offset + i and stores the clone there, for i = 0, 1, ... in this order; it
\* runs the destructor of each old occupant once and no other destructor.
C7_PutCloningOrder ==
    [][(last'.op = "put_cloning_from_slice_at" /\ Ok(last') /\ elem = "guard") =>
         /\ Len(world'.events) = 3 * last'.n
         /\ \A i \in 0 .. last'.n - 1 :
               LET k == last'.index + i
                   old == world.mem[k + 1]
                   new == world'.mem[k + 1]
               IN  /\ world'.events[3 * i + 1] = <<"clone", i, new>>
                   /\ world'.events[3 * i + 2] = <<"drop", k, old>>
                   /\ world'.events[3 * i + 3] = <<"store", k, new>>
                   /\ world.drops[old.id] = 0 /\ world'.drops[old.id] = 1
                   /\ world'.drops[new.id] = 0
         /\ \A id \in Ids :
               (\A i \in 1 .. last'.n : world.mem[last'.index + i].id # id)
                   => world'.drops[id] = world.drops[id]]_vars

\* put_cloning_from_slice_at replaced two guards.
C7_Witness ==
    /\ last.op = "put_cloning_from_slice_at"
    /\ Ok(last)
    /\ elem = "guard"
    /\ last.n = 2
    /\ Len(world.events) = 6

\* C8 (dropping a handle): dropping the handle changes no element and runs no
\* destructor; every value in the storage is still alive afterwards.
C8_DropHandleNoOp ==
    [][last'.op = "drop_handle" =>
         /\ world'.mem = world.mem
         /\ world'.drops = world.drops
         /\ world'.events = <<>>
         /\ shadow'.e.mem = shadow.e.mem
         /\ \A i \in DOMAIN world'.mem :
               HasDrop(world'.mem[i]) => world'.drops[world'.mem[i].id] = 0]_vars

\* A slice handle is dropped after it put a new guard into the storage.
C8_Witness ==
    /\ status = "gone"
    /\ handle.type = "WriteOnlySlice"
    /\ elem = "guard"
    /\ world.nextId > Len(world.mem)
    /\ \E id \in Ids : world.drops[id] = 1

\* C9 (safe constructor): WriteOnlySlice::from never panics and yields a
\* handle of the length of the slice.
C9_SafeConstructor ==
    (last.op = "from" /\ handle.type = "WriteOnlySlice") =>
        (Ok(last) /\ handle.len = Len(world.mem))

StoreCount(ev) == Cardinality({x \in DOMAIN ev : ev[x][1] = "store"})
NothingModified ==
    /\ world'.mem = world.mem
    /\ Kinds(world'.events) \cap {"store", "drop"} = {}
    /\ \A i \in DOMAIN world.mem :
          HasDrop(world.mem[i]) =>
              world'.drops[world.mem[i].id] = world.drops[world.mem[i].id]

\* C10 as claimed (all or nothing): however a bulk operation ends within
\* defined behaviour, either all src.len() slots were written or nothing was
\* modified and no old occupant destroyed.
C10_AllOrNothing ==
    [][(last'.op \in BulkOps /\ last'.outcome # "ub") =>
         \/ StoreCount(world'.events) = last'.n
         \/ NothingModified]_vars

\* The first m slots of the target range were written, in order, and nothing
\* else; with dropping, exactly their old occupants were destroyed.
PrefixWritten(m, dropping) ==
    /\ StoreCount(world'.events) = m
    /\ \A j \in DOMAIN world.mem :
          IF last'.index < j /\ j <= last'.index + m
          THEN /\ world'.mem[j].val = Copied(j).val
               /\ HasDrop(world.mem[j]) =>
                     world'.drops[world.mem[j].id] = (IF dropping THEN 1 ELSE 0)
               /\ HasDrop(world'.mem[j]) => world'.drops[world'.mem[j].id] = 0
          ELSE /\ world'.mem[j] = world.mem[j]
               /\ HasDrop(world.mem[j]) => world'.drops[world.mem[j].id] = 0

\* C10 as amended: a bulk operation that returns has written all src.len()
\* slots; one that panics on its bounds check has modified nothing; a cloning
\* one that panics while cloning src[i] has written exactly the slots
\* offset .. offset + i - 1 (and put_cloning_from_slice_at has destroyed
\* exactly their old occupants).
C10_PrefixWritten ==
    [][last'.op \in BulkOps =>
         /\ Ok(last') =>
               PrefixWritten(last'.n, last'.op = "put_cloning_from_slice_at")
         /\ last'.outcome \in {"panic_bounds", "panic_overflow"} => NothingModified
         /\ last'.outcome = "panic_clone" =>
               /\ last'.op # "write_copying_from_slice_at"
               /\ last'.panicAt < last'.n
               /\ PrefixWritten(last'.panicAt, last'.op = "put_cloning_from_slice_at")]_vars

\* put_cloning_from_slice_at panicked cloning the second of two guards, after
\* it replaced the first.
C10_Witness ==
    /\ last.op = "put_cloning_from_slice_at"
    /\ last.outcome = "panic_clone"
    /\ elem = "guard"
    /\ last.n = 2 /\ last.panicAt = 1
    /\ Len(world.events) = 3

\* C11 (program order, last writer wins): while every call so far returned,
\* each element of the target holds the payload of the most recent call that
\* wrote its index, or its initial payload if none did; the handle's length
\* is the length given at construction, and len() returns it.
C11_LastWriterWins ==
    status = "live" =>
        /\ handle.len = Len(written)
        /\ Len(world.mem) = Len(written)
        /\ \A j \in DOMAIN written : world.mem[j].val = written[j]
        /\ last.op = "len" => last.ret = UsizeRet(Len(written))

\* len() is called on a slice of one element after two calls replaced that
\* element one after the other: it holds the value of the second.
C11_Witness ==
    /\ status = "live"
    /\ handle.type = "WriteOnlySlice"
    /\ elem = "guard"
    /\ last.op = "len"
    /\ Len(world.mem) = 1
    /\ world.nextId = 3
    /\ world.mem[1].id = 3
    /\ world.drops[1] = 1 /\ world.drops[2] = 1
    /\ written = <<MaxLen>>

\* C12 (in-bounds stores under wrapping arithmetic): in a build without
\* overflow checks, a safe operation called on a handle that
\* WriteOnlySlice::from has just built makes no store to an element index
\* >= len, whatever index, offset and source it is given.
C12_InBoundsStores ==
    [][(profile = "release" /\ last.op = "from" /\ handle.type = "WriteOnlySlice") =>
          \A x \in DOMAIN world'.events :
              /\ world'.events[x][1] # "stray"
              /\ world'.events[x][1] = "store" => world'.events[x][2] < handle.len]_vars

PutFamily == {"put", "put_at", "put_cloning_from_slice_at"}

\* Every value created so far is either in the storage with its destructor
\* not run, or out of it with its destructor run once.
Conserved(e) ==
    \A id \in Ids :
        IF id > e.nextId THEN e.drops[id] = 0
        ELSE IF InMem(e, id) THEN e.drops[id] = 0
        ELSE e.drops[id] = 1

\* C13 (destructor conservation of the put family): over values with a
\* destructor, a put, put_at or put_cloning_from_slice_at, however it ends,
\* keeps every value ever created either alive in the storage or destroyed
\* once (so do len, is_empty and dropping the handle, which touch nothing);
\* the teardown of the storage after such calls leaves every value ever
\* created with its destructor run exactly once.  From and from_raw_parts,
\* called on the storage itself, build the same handle.
C13_DestructorConservation ==
    [][(elem = "guard" /\ Conserved(world)) =>
          /\ last'.op \in PutFamily \cup {"len", "is_empty", "drop_handle"}
                => Conserved(world')
          /\ last'.op = "teardown" =>
                \A id \in Ids :
                    world'.drops[id] = (IF id <= world'.nextId THEN 1 ELSE 0)]_vars

====
